---- MODULE Spec2Model ----
(***************************************************************************)
(* A model of the ft_parsers pipeline: the incremental upsert of social    *)
(* posts and channel snapshots into a Google sheet (vk_tg_parsers.py,      *)
(* class BaseParser, driven by main.py) and the full replace of the Notion *)
(* sheets (notion_parser.py, class BaseNotionParser).                      *)
(*                                                                         *)
(* The Cyrillic dictionary keys and sheet names of the source are written  *)
(* in Latin transliteration ("Post" is the key of the identity column,     *)
(* "List1" the sheet), because the module has to be ASCII.                 *)
(***************************************************************************)
EXTENDS Integers, Sequences, FiniteSets, TLC

VARIABLES
    parser_flag,      \* self.parser_flag of the parser that runs
    sheet,            \* the destination sheet: a sequence of rows of cells
    posts_info_list,  \* the records handed to the run (newRecords)
    pc,               \* position of the run
    run,              \* "first", or "second": the run on the same records
    existing_posts,   \* run_google_upsert: result of _get_existing_posts
    rows_to_update,   \* run_google_upsert: records matched
    rows_to_insert,   \* run_google_upsert: records not matched
    existing_posts2,  \* _update_existing_rows: its own read of the column
    update_requests,  \* _update_existing_rows: the update operations built
    last_row,         \* _insert_new_rows: the computed start row (0: none)
    calls,            \* destination operations issued in the current run
    sheet_start,      \* the sheet when the current run started
    sheet_first,      \* the sheet when the first run started
    all_ok,           \* no request to the destination or to Notion has failed
    pages,            \* the Notion database, as the pages its API serves
    next_cursor,      \* get_records_by_batch: next_cursor (0 is None)
    has_more,         \* get_records_by_batch: has_more
    requests,         \* the start_cursor of every query sent (0: none sent)
    table_info_list,  \* table_info_list: the records built so far
    page_data,        \* get_records_by_batch: data, the response it holds
    result_index,     \* get_records_by_batch: results of data yielded
    links,            \* what the source answers for each link of the parser
    link_index,       \* the links the loop of the parser has taken so far
    logged,           \* the links whose error was logged or printed
    message_index,    \* tg_posts_info_list: messages of the channel handled
    raw,              \* a raw item of a source
    info              \* the record built from the raw item (<<>>: not yet)

upsertVars == <<posts_info_list, run, existing_posts, rows_to_update,
                rows_to_insert, existing_posts2, update_requests, last_row,
                sheet_first>>

readerVars == <<page_data, result_index>>

notionVars == <<pages, next_cursor, has_more, requests, table_info_list,
                readerVars>>

fetchVars == <<links, link_index, logged, message_index>>

normVars == <<raw, info>>

vars == <<parser_flag, sheet, pc, calls, sheet_start, all_ok, upsertVars,
          notionVars, fetchVars, normVars>>

-----------------------------------------------------------------------------
(* Bounds of the model *)

\* data rows below the header of the initial destination
MaxRows == 2
\* records handed to one run
MaxRecs == 2
\* pages of the Notion database
MaxPages == 2
\* records of one page
MaxPageLen == 2
\* links handed to one social parser
MaxLinks == 2
\* entries of a multi-valued property of a raw Notion record
MaxPeople == 2
\* words of a text of a raw post
MaxWords == 2

-----------------------------------------------------------------------------
(* Values *)

\* Python's None
None == "None"
\* a cell of the sheet that holds nothing
Blank == "<blank>"

Range(s) == {s[i] : i \in 1..Len(s)}

Max(S) == CHOOSE m \in S : \A n \in S : n <= m

PostKinds == {"vk_posts_parser", "tg_posts_parser"}
ChannelKinds == {"vk_channel_parser", "tg_channel_parser"}

column_letters ==
    <<"A", "B", "C", "D", "E", "F", "G", "H", "I", "J", "K", "L", "M", "N">>

\* the dictionary built for one VK post; post and likes vary
VkPostInfo(link, post, likes) ==
    ("Gruppa" :> link) @@ ("Post" :> post)
    @@ ("Tekst originalnogo posta" :> "'t") @@ ("Data-vremya" :> "d")
    @@ ("Layki" :> likes) @@ ("Reposty" :> "0") @@ ("Kommentarii" :> "0")
    @@ ("Prosmotry" :> "0") @@ ("Tekst reposta" :> None)
    @@ ("Ssylka na originalnyy post" :> None) @@ ("Ssylka v poste" :> None)

\* the dictionary built for one TG message; post and reactions vary
TgMessageInfo(link, post, reactions) ==
    ("Kanal" :> link) @@ ("Post" :> post) @@ ("Tekst posta" :> "t")
    @@ ("Data-vremya" :> "d") @@ ("Reaktsii" :> reactions)
    @@ ("Kommentarii" :> "0") @@ ("Prosmotry" :> "0")
    @@ ("Kolichestvo repostov" :> "0")
    @@ ("Ssylka na originalnyy post" :> "") @@ ("Ssylka v poste" :> None)

\* the dictionary built for one channel snapshot (VK and TG alike)
ChannelInfo(link, count) ==
    ("Kanal" :> link) @@ ("Data-vremya" :> "d")
    @@ ("Kolichestvo podpischikov" :> count)

\* BaseParser._get_row_from_post
GetRowFromPost(post, flag) ==
    CASE flag = "vk_posts_parser" ->
            <<post["Gruppa"], post["Post"], post["Tekst originalnogo posta"],
              post["Data-vremya"], post["Layki"], post["Reposty"],
              post["Kommentarii"], post["Prosmotry"], post["Tekst reposta"],
              post["Ssylka na originalnyy post"], post["Ssylka v poste"]>>
      [] flag = "tg_posts_parser" ->
            <<post["Kanal"], post["Post"], post["Tekst posta"],
              post["Data-vremya"], post["Reaktsii"], post["Kommentarii"],
              post["Prosmotry"], post["Kolichestvo repostov"],
              post["Ssylka na originalnyy post"], post["Ssylka v poste"]>>
      [] flag = "vk_channel_parser" ->
            <<post["Kanal"], post["Data-vremya"],
              post["Kolichestvo podpischikov"]>>
      [] flag = "tg_channel_parser" ->
            <<post["Kanal"], post["Data-vremya"],
              post["Kolichestvo podpischikov"]>>

\* BaseParser._make_sheet_ready_data
MakeSheetReadyData(list, flag) ==
    [i \in 1..Len(list) |-> GetRowFromPost(list[i], flag)]

-----------------------------------------------------------------------------
(* The destination: spreadsheets().values() of the Google Sheets service *)

\* values().get over one column from row `from` down: one list per row up to
\* the last filled cell, an empty list for a row whose cell holds nothing
ColumnValues(sh, col, from) ==
    LET filled == {i \in from..Len(sh) : sh[i][col] # Blank}
        last == IF filled = {} THEN from - 1 ELSE Max(filled)
    IN  [k \in 1..(last - from + 1) |->
            IF sh[from + k - 1][col] = Blank THEN <<>>
            ELSE <<sh[from + k - 1][col]>>]

\* valueInputOption USER_ENTERED on one cell: None leaves the cell as it
\* is, the empty string empties it, any other text is stored
WriteCell(old, new) ==
    IF new = None THEN old ELSE IF new = "" THEN Blank ELSE new

BlankRow(width) == [c \in 1..width |-> Blank]

\* one entry of a batchUpdate body: `values` written row by row from the
\* row the range starts at, column A on
ApplyEntry(sh, entry) ==
    LET first == entry.range[2]
        n == Len(entry.values)
        width == IF Len(sh) > 0 THEN Len(sh[1])
                 ELSE IF n > 0 THEN Len(entry.values[1]) ELSE 0
        len == IF first + n - 1 > Len(sh) THEN first + n - 1 ELSE Len(sh)
        old(i) == IF i <= Len(sh) THEN sh[i] ELSE BlankRow(width)
    IN  [i \in 1..len |->
            IF i >= first /\ i < first + n
            THEN [c \in 1..width |->
                    IF c <= Len(entry.values[i - first + 1])
                    THEN WriteCell(old(i)[c], entry.values[i - first + 1][c])
                    ELSE old(i)[c]]
            ELSE old(i)]

RECURSIVE ApplyData(_, _)
\* values().batchUpdate: the entries of body["data"], applied in order
ApplyData(sh, data) ==
    IF data = <<>> THEN sh
    ELSE ApplyData(ApplyEntry(sh, Head(data)), Tail(data))

BatchUpdate(data, ok) == [op |-> "batchUpdate", data |-> data, ok |-> ok]

\* Written with a failed write undone back to the sheet the run started on
WrittenOrRolledBack(sh, data, ok) ==
    IF ok THEN ApplyData(sh, data) ELSE sheet_start

\* the sheet after batchUpdate(...).execute(): the data applied, or, when
\* the request raises, the sheet as it was
Written(sh, data, ok) == IF ok THEN ApplyData(sh, data) ELSE sh

-----------------------------------------------------------------------------
(* BaseParser *)

\* GetExistingPosts that reads the sheet once in a run and then answers
\* with what run_google_upsert read
GetExistingPostsStale(sh, ok) ==
    LET values == ColumnValues(sh, 2, 2)
    IN  IF pc # "start" THEN existing_posts
        ELSE IF ~ok THEN <<>>
        ELSE IF \E i \in 1..Len(values) : values[i] = <<>> THEN <<>>
        ELSE [i \in 1..Len(values) |-> values[i][1]]

\* BaseParser._get_existing_posts: column B from row 2; any exception (a
\* failed request, or item[0] of a row whose cell is empty) is logged and
\* an empty list returned
GetExistingPosts(sh, ok) ==
    LET values == ColumnValues(sh, 2, 2)
    IN  IF ~ok THEN <<>>
        ELSE IF \E i \in 1..Len(values) : values[i] = <<>> THEN <<>>
        ELSE [i \in 1..Len(values) |-> values[i][1]]

\* Index with the position counted from 1
IndexOneBased(list, x) ==
    CHOOSE i \in 1..Len(list) : list[i] = x /\ \A j \in 1..(i - 1) : list[j] # x

\* list.index: the 0-based position of the first occurrence
Index(list, x) == (CHOOSE i \in 1..Len(list) :
                      list[i] = x /\ \A j \in 1..(i - 1) : list[j] # x) - 1

UpdateRange(row_index, column_letter) ==
    <<"List1!A", row_index, column_letter, row_index>>

RECURSIVE BuildUpdateRequests(_, _, _)
\* the loop of _update_existing_rows over rebuild_data
BuildUpdateRequests(rebuild_data, existing, column_letter) ==
    IF rebuild_data = <<>> THEN <<>>
    ELSE LET row == Head(rebuild_data)
             post_link == row[2]
             rest == BuildUpdateRequests(Tail(rebuild_data), existing,
                                         column_letter)
         IN  IF post_link \in Range(existing)
             THEN <<[range |-> UpdateRange(Index(existing, post_link) + 2,
                                           column_letter),
                     values |-> <<row>>]>> \o rest
             ELSE rest

\* PartitionUpdate that does not look at the last existing identity
PartitionUpdateButLast(list, existing) ==
    SelectSeq(list, LAMBDA post :
        post["Post"] \in {existing[i] : i \in 1..(Len(existing) - 1)})

RECURSIVE PartitionUpdate(_, _)
\* the loop of run_google_upsert: the records appended to rows_to_update
PartitionUpdate(list, existing) ==
    IF list = <<>> THEN <<>>
    ELSE IF Head(list)["Post"] \in Range(existing)
         THEN <<Head(list)>> \o PartitionUpdate(Tail(list), existing)
         ELSE PartitionUpdate(Tail(list), existing)

\* PartitionInsert that keeps every record
PartitionInsertAll(list, existing) == list

RECURSIVE PartitionInsert(_, _)
\* the loop of run_google_upsert: the records appended to rows_to_insert
PartitionInsert(list, existing) ==
    IF list = <<>> THEN <<>>
    ELSE IF Head(list)["Post"] \in Range(existing)
         THEN PartitionInsert(Tail(list), existing)
         ELSE <<Head(list)>> \o PartitionInsert(Tail(list), existing)

\* _insert_new_rows: last_row from the read of column A
LastRow(sh) == Len(ColumnValues(sh, 1, 1)) + 1

AppendRange(row) == <<"List1!A", row>>

-----------------------------------------------------------------------------
(* Inputs *)

\* the records a run may be handed, per parser
RecordInputs(flag) ==
    CASE flag = "vk_posts_parser" ->
            {VkPostInfo("g", "p1", "v1"), VkPostInfo("g", "p1", "v2"),
             VkPostInfo("g", "p2", "v1"), VkPostInfo("g", "", "v1"),
             VkPostInfo("g", None, "v1")}
      [] flag = "tg_posts_parser" ->
            {TgMessageInfo("g", "p1", "v1"), TgMessageInfo("g", "p1", "v2"),
             TgMessageInfo("g", "p2", "v1"), TgMessageInfo("g", "", "v1"),
             TgMessageInfo("g", None, "v1")}
      [] flag \in ChannelKinds ->
            {ChannelInfo("g", "v1"), ChannelInfo("g", "v2"),
             ChannelInfo("h", "v1")}

Width(flag) ==
    CASE flag = "vk_posts_parser" -> 11
      [] flag = "tg_posts_parser" -> 10
      [] flag \in ChannelKinds -> 3

\* a row already in the destination: columns A and B vary
OldRow(flag, a, b) ==
    [c \in 1..Width(flag) |-> IF c = 1 THEN a ELSE IF c = 2 THEN b ELSE "old"]

HeaderRow(flag) == [c \in 1..Width(flag) |-> "header"]

OldRows(flag) ==
    {OldRow(flag, "g", "p1"), OldRow(flag, "g", "p2"),
     OldRow(flag, Blank, "p1"), OldRow(flag, "g", Blank),
     OldRow(flag, "g", "")}

SeqsUpTo(S, n) == UNION {[1..k -> S] : k \in 0..n}

\* the destinations a run may find: an empty sheet, or a header row and up
\* to MaxRows rows below it
SheetInputs(flag) ==
    {<<>>} \cup {<<HeaderRow(flag)>> \o rows :
                     rows \in SeqsUpTo(OldRows(flag), MaxRows)}

-----------------------------------------------------------------------------
(* The runs *)

Init ==
    /\ parser_flag \in PostKinds \cup ChannelKinds
    /\ sheet \in SheetInputs(parser_flag)
    /\ posts_info_list \in SeqsUpTo(RecordInputs(parser_flag), MaxRecs)
    /\ pc = "start"
    /\ run = "first"
    /\ existing_posts = <<>>
    /\ rows_to_update = <<>>
    /\ rows_to_insert = <<>>
    /\ existing_posts2 = <<>>
    /\ update_requests = <<>>
    /\ last_row = 0
    /\ calls = <<>>
    /\ sheet_start = sheet
    /\ sheet_first = sheet
    /\ all_ok = TRUE
    /\ pages = <<>>
    /\ next_cursor = 0
    /\ has_more = TRUE
    /\ requests = <<>>
    /\ table_info_list = <<>>
    /\ page_data = <<>>
    /\ result_index = 0
    /\ links = <<>>
    /\ link_index = 0
    /\ message_index = 0
    /\ logged = <<>>
    /\ raw = <<>>
    /\ info = <<>>

\* run_google_upsert up to the two calls: the read and the partition
Partition ==
    /\ pc = "start"
    /\ parser_flag \in PostKinds
    /\ \E ok \in BOOLEAN :
         LET existing == GetExistingPosts(sheet, ok)
         IN  /\ existing_posts' = existing
             /\ rows_to_update' = PartitionUpdate(posts_info_list, existing)
             /\ rows_to_insert' = PartitionInsert(posts_info_list, existing)
             /\ all_ok' = (all_ok /\ ok)
    /\ pc' = "partitioned"
    /\ UNCHANGED <<parser_flag, sheet, posts_info_list, run, existing_posts2,
                   update_requests, last_row, calls, sheet_start, sheet_first,
                   notionVars, fetchVars, normVars>>

\* run_google_upsert: "if rows_to_update: self._update_existing_rows(...)"
UpdateExistingRows ==
    /\ pc = "partitioned"
    /\ IF rows_to_update = <<>>
       THEN /\ pc' = "updated"
            /\ UNCHANGED <<sheet, existing_posts2, update_requests, calls,
                           all_ok>>
       ELSE \E okRead \in BOOLEAN, okWrite \in BOOLEAN :
         LET column_letter ==
                 column_letters[Cardinality(DOMAIN rows_to_update[1])]
             rebuild_data == MakeSheetReadyData(rows_to_update, parser_flag)
             existing == GetExistingPosts(sheet, okRead)
             built == BuildUpdateRequests(rebuild_data, existing,
                                          column_letter)
         IN  /\ existing_posts2' = existing
             /\ update_requests' = built
             /\ IF built = <<>>
                THEN /\ pc' = "updated"
                     /\ all_ok' = (all_ok /\ okRead)
                     /\ UNCHANGED <<sheet, calls>>
                ELSE /\ calls' = Append(calls, BatchUpdate(built, okWrite))
                     /\ all_ok' = (all_ok /\ okRead /\ okWrite)
                     /\ sheet' = Written(sheet, built, okWrite)
                     /\ pc' = IF okWrite THEN "updated" ELSE "failed"
    /\ UNCHANGED <<parser_flag, posts_info_list, run, existing_posts,
                   rows_to_update, rows_to_insert, last_row, sheet_start,
                   sheet_first, notionVars, fetchVars,
                   normVars>>

\* BaseParser._insert_new_rows with the given records
InsertNewRowsBody(rows, okRead, okWrite) ==
    LET rebuild_data == MakeSheetReadyData(rows, parser_flag)
        row == LastRow(sheet)
        data == <<[range |-> AppendRange(row), values |-> rebuild_data]>>
    IN  IF ~okRead
        THEN /\ pc' = "failed"
             /\ all_ok' = FALSE
             /\ UNCHANGED <<sheet, last_row, calls>>
        ELSE /\ last_row' = row
             /\ all_ok' = (all_ok /\ okWrite)
             /\ calls' = Append(calls, BatchUpdate(data, okWrite))
             /\ sheet' = Written(sheet, data, okWrite)
             /\ pc' = IF okWrite THEN "done" ELSE "failed"

\* run_google_upsert: "if rows_to_insert: self._insert_new_rows(...)"
InsertNewRows ==
    /\ pc = "updated"
    /\ IF rows_to_insert = <<>>
       THEN /\ pc' = "done"
            /\ UNCHANGED <<sheet, last_row, calls, all_ok>>
       ELSE \E okRead \in BOOLEAN, okWrite \in BOOLEAN :
                InsertNewRowsBody(rows_to_insert, okRead, okWrite)
    /\ UNCHANGED <<parser_flag, posts_info_list, run, existing_posts,
                   rows_to_update, rows_to_insert, existing_posts2,
                   update_requests, sheet_start, sheet_first, notionVars,
                   fetchVars, normVars>>

\* main.py and run_tg_channels_parser: the channel parsers call
\* _insert_new_rows with all their records
ChannelInsert ==
    /\ pc = "start"
    /\ parser_flag \in ChannelKinds
    /\ rows_to_insert' = posts_info_list
    /\ \E okRead \in BOOLEAN, okWrite \in BOOLEAN :
           InsertNewRowsBody(posts_info_list, okRead, okWrite)
    /\ UNCHANGED <<parser_flag, posts_info_list, run, existing_posts,
                   rows_to_update, existing_posts2, update_requests,
                   sheet_start, sheet_first, notionVars, fetchVars,
                   normVars>>

\* the program is started again with the same source data
Rerun ==
    /\ pc = "done"
    /\ run = "first"
    /\ run' = "second"
    /\ pc' = "start"
    /\ sheet_start' = sheet
    /\ existing_posts' = <<>>
    /\ rows_to_update' = <<>>
    /\ rows_to_insert' = <<>>
    /\ existing_posts2' = <<>>
    /\ update_requests' = <<>>
    /\ last_row' = 0
    /\ calls' = <<>>
    /\ UNCHANGED <<parser_flag, sheet, posts_info_list, sheet_first, all_ok,
                   notionVars, fetchVars, normVars>>

Next ==
    \/ Partition
    \/ UpdateExistingRows
    \/ InsertNewRows
    \/ ChannelInsert
    \/ Rerun

Spec == Init /\ [][Next]_vars

-----------------------------------------------------------------------------
(* BaseNotionParser: the full replace of a Notion sheet *)

NotionKinds == {"tasks", "urls"}

\* TasksDbParser.table_info_list: the dictionary built for one record
TasksInfo(record) ==
    ("Zadacha" :> record) @@ ("Dedlayn [R]" :> None) @@ ("Naznachen" :> None)
    @@ ("Status [R]" :> None)
    @@ ("Publikatsiya (avtomaticheskoe pole)" :> None) @@ ("UTM" :> None)
    @@ ("organic" :> "1") @@ ("Gibkaya publikatsiya" :> "Net")
    @@ ("Dedlayn [K-P]" :> None) @@ ("Status [K-P]" :> None)
    @@ ("Srochnost [Dizayn]" :> None) @@ ("Status [Daydzhest]" :> None)
    @@ ("Status [D]" :> None) @@ ("Segment" :> None) @@ ("Dedlayn[D]" :> None)
    @@ ("Gruppa" :> None) @@ ("Ne ispolzovat 1" :> None)
    @@ ("Ne ispolzovat 2" :> None) @@ ("Ne ispolzovat 3" :> None)
    @@ ("Kompaniya" :> None)

\* UrlDbParser.table_info_list: the dictionary built for one record
UrlInfo(record) ==
    ("" :> record) @@ ("URL" :> "u") @@ ("URL&UTM" :> None)
    @@ ("Gruppa" :> None) @@ ("utm_medium" :> None) @@ ("utm_campaign" :> None)
    @@ ("utm_tern" :> None) @@ ("Database ID" :> None) @@ ("Infopovod" :> None)
    @@ ("Napravleniya" :> None) @@ ("Owner" :> None) @@ ("Segment" :> None)
    @@ ("Osnovnaya zadacha" :> None)

TableInfo(record, flag) ==
    IF flag = "tasks" THEN TasksInfo(record) ELSE UrlInfo(record)

\* BaseNotionParser._get_row_from_table
GetRowFromTable(row, flag) ==
    CASE flag = "tasks" ->
            <<row["Zadacha"], row["Dedlayn [R]"], row["Naznachen"],
              row["Status [R]"], row["Publikatsiya (avtomaticheskoe pole)"],
              row["UTM"], row["organic"], row["Gibkaya publikatsiya"],
              row["Dedlayn [K-P]"], row["Status [K-P]"],
              row["Srochnost [Dizayn]"], row["Status [Daydzhest]"],
              row["Status [D]"], row["Segment"], row["Dedlayn[D]"],
              row["Gruppa"], row["Ne ispolzovat 1"], row["Ne ispolzovat 2"],
              row["Ne ispolzovat 3"], row["Kompaniya"]>>
      [] flag = "urls" ->
            <<row[""], row["URL"], row["URL&UTM"], row["Gruppa"],
              row["utm_medium"], row["utm_campaign"], row["utm_tern"],
              row["Database ID"], row["Infopovod"], row["Napravleniya"],
              row["Owner"], row["Segment"], row["Osnovnaya zadacha"]>>

\* MakeSheetReadyDataNotion with the first column of each row left out
MakeSheetReadyDataNotionShort(list, flag) ==
    [i \in 1..Len(list) |-> Tail(GetRowFromTable(list[i], flag))]

\* BaseNotionParser._make_sheet_ready_data
MakeSheetReadyDataNotion(list, flag) ==
    [i \in 1..Len(list) |-> GetRowFromTable(list[i], flag)]

\* BaseNotionParser._get_table_headers
GetTableHeaders(flag) ==
    CASE flag = "tasks" ->
            <<<<"Zadacha", "Dedlayn [R]", "Naznachen", "Status [R]",
                "Publikatsiya (avtomaticheskoe pole)", "UTM", "organic",
                "Gibkaya publikatsiya", "Dedlayn [K-P]", "Status [K-P]",
                "Srochnost [Dizayn]", "Status [Daydzhest]", "Status [D]",
                "Segment", "Dedlayn[D]", "Gruppa", "Ne ispolzovat 1",
                "Ne ispolzovat 2", "Ne ispolzovat 3", "Kompaniya">>>>
      [] flag = "urls" ->
            <<<<"", "URL", "URL&UTM", "Gruppa", "utm_medium", "utm_campaign",
                "utm_tern", "Database ID", "Infopovod", "Napravleniya",
                "Owner", "Segment", "Osnovnaya zadacha">>>>

\* ReadyData without the header row
ReadyDataNoHeaders(list, flag) == MakeSheetReadyDataNotion(list, flag)

\* _google_sheet_handling: ready_data, the headers extended by the rows
ReadyData(list, flag) ==
    GetTableHeaders(flag) \o MakeSheetReadyDataNotion(list, flag)

\* values().clear over the whole sheet
Clear(range, ok) == [op |-> "clear", data |-> <<>>, ok |-> ok, range |-> range]

\* the response of the Notion API to a query: the first page without a
\* start_cursor, else the page the cursor names
Response(start_cursor) ==
    pages[IF start_cursor = 0 THEN 1 ELSE start_cursor]

\* YieldResults without the last record of the page
YieldResultsButLast(data) ==
    SubSeq(data.results, 1, Len(data.results) - 1)

\* get_records_by_batch: "for result in data["results"]: yield result"
YieldResults(data) == data.results

\* the databases a run may find: 1..MaxPages pages of up to MaxPageLen
\* records, has_more set on every page but the last, next_cursor naming the
\* next page
PageInputs(k, n) ==
    {[results |-> r, has_more |-> k < n,
      next_cursor |-> IF k < n THEN k + 1 ELSE 0] :
        r \in SeqsUpTo({"r1", "r2"}, MaxPageLen)}

PagesInputs ==
    UNION {{p \in [1..n -> UNION {PageInputs(k, n) : k \in 1..n}] :
                \A k \in 1..n : p[k] \in PageInputs(k, n)} : n \in 1..MaxPages}

NotionWidth(flag) == Len(GetTableHeaders(flag)[1])

\* what the sheet may hold before the run
NotionSheetInputs(flag) ==
    {[i \in 1..n |-> [c \in 1..NotionWidth(flag) |-> "old"]] :
        n \in 0..(MaxRows + 1)}

InitNotion ==
    /\ parser_flag \in NotionKinds
    /\ sheet \in NotionSheetInputs(parser_flag)
    /\ pages \in PagesInputs
    /\ pc = "start"
    /\ next_cursor = 0
    /\ has_more = TRUE
    /\ requests = <<>>
    /\ table_info_list = <<>>
    /\ page_data = <<>>
    /\ result_index = 0
    /\ calls = <<>>
    /\ sheet_start = sheet
    /\ posts_info_list = <<>>
    /\ run = "first"
    /\ existing_posts = <<>>
    /\ rows_to_update = <<>>
    /\ rows_to_insert = <<>>
    /\ existing_posts2 = <<>>
    /\ update_requests = <<>>
    /\ last_row = 0
    /\ sheet_first = sheet
    /\ all_ok = TRUE
    /\ links = <<>>
    /\ link_index = 0
    /\ message_index = 0
    /\ logged = <<>>
    /\ raw = <<>>
    /\ info = <<>>

\* one turn of the loop of get_records_by_batch, its records consumed by
\* table_info_list; a request that raises ends the run
FetchPage ==
    /\ parser_flag \in NotionKinds
    /\ pc = "start"
    /\ has_more
    /\ \E ok \in BOOLEAN :
         IF ~ok
         THEN /\ pc' = "failed"
              /\ all_ok' = FALSE
              /\ requests' = Append(requests, next_cursor)
              /\ UNCHANGED <<next_cursor, has_more, table_info_list>>
         ELSE LET data == Response(next_cursor)
              IN  /\ requests' = Append(requests, next_cursor)
                  /\ table_info_list' = table_info_list \o
                         [i \in 1..Len(YieldResults(data)) |->
                             TableInfo(YieldResults(data)[i], parser_flag)]
                  /\ has_more' = data.has_more
                  /\ next_cursor' = data.next_cursor
                  /\ pc' = "start"
                  /\ UNCHANGED all_ok
    /\ UNCHANGED <<parser_flag, sheet, calls, sheet_start, pages, readerVars,
                   upsertVars, fetchVars, normVars>>

\* _google_sheet_handling: the clear of the sheet, once the records are built
ClearSheet ==
    /\ parser_flag \in NotionKinds
    /\ pc = "start"
    /\ ~has_more
    /\ \E ok \in BOOLEAN :
         /\ calls' = Append(calls, Clear("List1", ok))
         /\ sheet' = IF ok THEN <<>> ELSE sheet
         /\ pc' = IF ok THEN "cleared" ELSE "failed"
         /\ all_ok' = (all_ok /\ ok)
    /\ UNCHANGED <<parser_flag, sheet_start, upsertVars, notionVars, fetchVars,
                   normVars>>

\* _google_sheet_handling: the write of ready_data from A1
WriteSheet ==
    /\ parser_flag \in NotionKinds
    /\ pc = "cleared"
    /\ \E ok \in BOOLEAN :
         LET data == <<[range |-> <<"List1!A", 1>>,
                        values |-> ReadyData(table_info_list, parser_flag)]>>
         IN  /\ calls' = Append(calls, BatchUpdate(data, ok))
             /\ sheet' = Written(sheet, data, ok)
             /\ pc' = IF ok THEN "done" ELSE "failed"
             /\ all_ok' = (all_ok /\ ok)
    /\ UNCHANGED <<parser_flag, sheet_start, upsertVars, notionVars, fetchVars,
                   normVars>>

NextNotion ==
    \/ FetchPage
    \/ ClearSheet
    \/ WriteSheet

SpecNotion == InitNotion /\ [][NextNotion]_vars

-----------------------------------------------------------------------------
(* get_records_by_batch step by step: a generator that holds one response, *)
(* with table_info_list as the consumer of what it yields                  *)

\* the most queries a run is followed for
MaxRequests == 3

\* a record of a page: "r1" is normalised into a row, "bad" is a record on
\* which table_info_list raises (a TypeError of the "Ne ispolzovat" joins, an
\* AttributeError of utm_tern)
StreamRecords == {"r1", "bad"}

\* table_info_list raises on the record
Raises(record) == record = "bad"

\* the responses the API may give for page k of n: has_more with the cursor
\* of the next page, has_more without a cursor, or no more
StreamPageInputs(k, n) ==
    {[results |-> r, has_more |-> h.has_more, next_cursor |-> h.next_cursor] :
        r \in SeqsUpTo(StreamRecords, MaxPageLen),
        h \in {[has_more |-> FALSE, next_cursor |-> 0],
               [has_more |-> TRUE, next_cursor |-> 0]}
              \cup {[has_more |-> TRUE, next_cursor |-> c] :
                        c \in {k + 1} \cap 1..n}}

StreamPagesInputs ==
    UNION {{p \in [1..n -> UNION {StreamPageInputs(k, n) : k \in 1..n}] :
                \A k \in 1..n : p[k] \in StreamPageInputs(k, n)} :
           n \in 1..MaxPages}

InitStream ==
    /\ parser_flag \in NotionKinds
    /\ sheet \in {sh \in NotionSheetInputs(parser_flag) : Len(sh) = 1}
    /\ pages \in StreamPagesInputs
    /\ pc = "start"
    /\ next_cursor = 0
    /\ has_more = TRUE
    /\ requests = <<>>
    /\ table_info_list = <<>>
    /\ page_data = <<>>
    /\ result_index = 0
    /\ calls = <<>>
    /\ sheet_start = sheet
    /\ posts_info_list = <<>>
    /\ run = "first"
    /\ existing_posts = <<>>
    /\ rows_to_update = <<>>
    /\ rows_to_insert = <<>>
    /\ existing_posts2 = <<>>
    /\ update_requests = <<>>
    /\ last_row = 0
    /\ sheet_first = sheet
    /\ all_ok = TRUE
    /\ links = <<>>
    /\ link_index = 0
    /\ message_index = 0
    /\ logged = <<>>
    /\ raw = <<>>
    /\ info = <<>>

\* the loop test of the page with its last result left unyielded
PageDoneEarly(d, index) == index >= Len(d.results) - 1

\* "for result in data["results"]" has run out of results
PageDone(d, index) == index = Len(d.results)

\* data.get("has_more", False) of a reader that stops after any page
HasMoreNever(d) == FALSE

\* data.get("has_more", False)
HasMore(d) == d.has_more

\* "if next_cursor: payload["start_cursor"] = next_cursor": the start_cursor
\* of the payload (0: the payload has none)
StartCursor(cursor) == IF cursor # 0 THEN cursor ELSE 0

\* "while has_more", requests.post and response.json(): a request that
\* raises ends the run
PostQuery ==
    /\ parser_flag \in NotionKinds
    /\ pc = "start"
    /\ has_more
    /\ Len(requests) < MaxRequests
    /\ requests' = Append(requests, StartCursor(next_cursor))
    /\ \E ok \in BOOLEAN :
         IF ok
         THEN /\ page_data' = Response(StartCursor(next_cursor))
              /\ result_index' = 0
              /\ pc' = "yielding"
              /\ UNCHANGED all_ok
         ELSE /\ pc' = "failed"
              /\ all_ok' = FALSE
              /\ UNCHANGED readerVars
    /\ UNCHANGED <<parser_flag, sheet, calls, sheet_start, pages, next_cursor,
                   has_more, table_info_list, upsertVars, fetchVars,
                   normVars>>

\* "yield result" and the turn of the loop of table_info_list that takes it:
\* the record is built and appended, or the turn raises and the run ends
YieldResult ==
    /\ parser_flag \in NotionKinds
    /\ pc = "yielding"
    /\ ~PageDone(page_data, result_index)
    /\ LET result == page_data.results[result_index + 1]
       IN  /\ result_index' = result_index + 1
           /\ IF Raises(result)
              THEN /\ pc' = "failed"
                   /\ UNCHANGED table_info_list
              ELSE /\ table_info_list' =
                          Append(table_info_list,
                                 TableInfo(result, parser_flag))
                   /\ pc' = "yielding"
    /\ UNCHANGED <<parser_flag, sheet, calls, sheet_start, all_ok, pages,
                   next_cursor, has_more, requests, page_data, upsertVars,
                   fetchVars, normVars>>

\* the end of a turn of "while has_more": has_more and next_cursor are taken
\* from the response
EndOfPage ==
    /\ parser_flag \in NotionKinds
    /\ pc = "yielding"
    /\ PageDone(page_data, result_index)
    /\ has_more' = HasMore(page_data)
    /\ next_cursor' = page_data.next_cursor
    /\ pc' = "start"
    /\ UNCHANGED <<parser_flag, sheet, calls, sheet_start, all_ok, pages,
                   requests, table_info_list, readerVars, upsertVars,
                   fetchVars, normVars>>

\* _google_sheet_handling: table_info_list is evaluated first, then the
\* clear and the write
NextStream ==
    \/ PostQuery
    \/ YieldResult
    \/ EndOfPage
    \/ ClearSheet
    \/ WriteSheet

SpecStream == InitStream /\ [][NextStream]_vars

-----------------------------------------------------------------------------
(* All the writers of a destination: the upsert of a social parser or the *)
(* full replace of a Notion parser                                        *)

InitAll == Init \/ InitNotion

NextAll ==
    \/ Partition
    \/ UpdateExistingRows
    \/ InsertNewRows
    \/ ChannelInsert
    \/ FetchPage
    \/ ClearSheet
    \/ WriteSheet

SpecAll == InitAll /\ [][NextAll]_vars

-----------------------------------------------------------------------------
(* The upsert on a sheet that somebody else edits during the run *)

\* the sheet without row i, the rows below it moved up
DeleteRow(sh, i) ==
    [k \in 1..(Len(sh) - 1) |-> IF k < i THEN sh[k] ELSE sh[k + 1]]

\* a post parser on a sheet whose rows all hold a link and an identity
InitConcurrent ==
    /\ Init
    /\ parser_flag \in PostKinds
    /\ \A i \in 2..Len(sheet) :
           sheet[i][1] # Blank /\ sheet[i][2] \notin {Blank, ""}

\* a user of the spreadsheet deletes a row below the header between two
\* reads of run_google_upsert
ExternalEdit ==
    /\ parser_flag \in PostKinds
    /\ pc \in {"partitioned", "updated"}
    /\ \E i \in 2..Len(sheet) : sheet' = DeleteRow(sheet, i)
    /\ UNCHANGED <<parser_flag, pc, calls, sheet_start, all_ok, upsertVars,
                   notionVars, fetchVars, normVars>>

NextConcurrent ==
    \/ Partition
    \/ UpdateExistingRows
    \/ InsertNewRows
    \/ ExternalEdit

SpecConcurrent == InitConcurrent /\ [][NextConcurrent]_vars

-----------------------------------------------------------------------------
(* The social parsers: the loop over the links, then the write *)

VkKinds == {"vk_posts_parser", "vk_channel_parser"}

\* the post of the wall of link i, and link i itself
PostIds == <<"p1", "p2", "p3">>
LinkNames == <<"g", "h", "k">>

\* what the source may answer for one link: the request is answered ("ok"),
\* raises ("raise"), is answered with a status other than 200 ("non200"), or
\* is answered that the group hides its members ("hidden"); n is the number
\* of records built from the link (for a TG link that raises: before the
\* exception)
LinkInputs(flag) ==
    CASE flag = "vk_posts_parser" ->
            {[outcome |-> "ok", n |-> 0], [outcome |-> "ok", n |-> 1],
             [outcome |-> "raise", n |-> 0], [outcome |-> "non200", n |-> 0]}
      [] flag = "tg_posts_parser" ->
            {[outcome |-> "ok", n |-> 0], [outcome |-> "ok", n |-> 1],
             [outcome |-> "raise", n |-> 0], [outcome |-> "raise", n |-> 1]}
      [] flag = "vk_channel_parser" ->
            {[outcome |-> "ok", n |-> 1], [outcome |-> "hidden", n |-> 0],
             [outcome |-> "raise", n |-> 0], [outcome |-> "non200", n |-> 0]}
      [] flag = "tg_channel_parser" ->
            {[outcome |-> "ok", n |-> 1], [outcome |-> "raise", n |-> 0]}

LinksInputs(flag) == UNION {[1..n -> LinkInputs(flag)] : n \in 1..MaxLinks}

\* the records built from link i
LinkRecords(flag, i, n) ==
    IF n = 0 THEN <<>>
    ELSE CASE flag = "vk_posts_parser" ->
                 <<VkPostInfo(LinkNames[i], PostIds[i], "v1")>>
           [] flag = "tg_posts_parser" ->
                 <<TgMessageInfo(LinkNames[i], PostIds[i], "v1")>>
           [] flag \in ChannelKinds ->
                 <<ChannelInfo(LinkNames[i], "v1")>>

\* GetVkWall with sys.exit caught like any other exception
GetVkWallCatchesExit(answer) ==
    IF answer.outcome \in {"non200", "raise"} THEN None ELSE "data"

\* VkPostsParser._get_vk_wall: sys.exit on a status other than 200
\* (SystemExit is not an Exception and passes the except clause); any
\* exception is logged and None returned; else the items
GetVkWall(answer) ==
    CASE answer.outcome = "non200" -> "SystemExit"
      [] answer.outcome = "raise" -> None
      [] OTHER -> "data"

\* VkChannelParser.get_channel_info: as _get_vk_wall
GetChannelInfo(answer) ==
    CASE answer.outcome = "non200" -> "SystemExit"
      [] answer.outcome = "raise" -> None
      [] OTHER -> "data"

InitFetch ==
    /\ parser_flag \in PostKinds \cup ChannelKinds
    /\ sheet \in SheetInputs(parser_flag)
    /\ links \in LinksInputs(parser_flag)
    /\ link_index = 0
    /\ message_index = 0
    /\ logged = <<>>
    /\ posts_info_list = <<>>
    /\ pc = "fetching"
    /\ run = "first"
    /\ existing_posts = <<>>
    /\ rows_to_update = <<>>
    /\ rows_to_insert = <<>>
    /\ existing_posts2 = <<>>
    /\ update_requests = <<>>
    /\ last_row = 0
    /\ calls = <<>>
    /\ sheet_start = sheet
    /\ sheet_first = sheet
    /\ all_ok = TRUE
    /\ pages = <<>>
    /\ next_cursor = 0
    /\ has_more = TRUE
    /\ requests = <<>>
    /\ table_info_list = <<>>
    /\ page_data = <<>>
    /\ result_index = 0
    /\ raw = <<>>
    /\ info = <<>>

\* what a turn of a fetch loop leaves alone
FetchFrame ==
    UNCHANGED <<parser_flag, sheet, calls, sheet_start, all_ok, run,
                existing_posts, rows_to_update, rows_to_insert,
                existing_posts2, update_requests, last_row, sheet_first,
                links, message_index, notionVars, normVars>>

\* the position after link i was handled: the loop goes on, or the list is
\* handed to the write
AfterLink(i) == IF i = Len(links) THEN "start" ELSE "fetching"

\* one turn of the loop of vk_posts_info_list: _get_vk_wall, then "for post
\* in data", which raises TypeError when data is None
FetchVkWall ==
    /\ parser_flag = "vk_posts_parser"
    /\ pc = "fetching"
    /\ link_index < Len(links)
    /\ LET i == link_index + 1
           data == GetVkWall(links[i])
       IN  /\ link_index' = i
           /\ CASE data = "SystemExit" ->
                      /\ pc' = "exited"
                      /\ UNCHANGED <<posts_info_list, logged>>
                [] data = None ->
                      /\ logged' = Append(logged, i)
                      /\ pc' = "crashed"
                      /\ UNCHANGED posts_info_list
                [] OTHER ->
                      /\ posts_info_list' = posts_info_list \o
                             LinkRecords(parser_flag, i, links[i].n)
                      /\ pc' = AfterLink(i)
                      /\ UNCHANGED logged
    /\ FetchFrame

\* one turn of the loop of vk_channel_info_list: get_channel_info, then
\* channel_data.get("error"), which raises AttributeError when channel_data
\* is None; a group that hides its members is passed over
FetchVkChannel ==
    /\ parser_flag = "vk_channel_parser"
    /\ pc = "fetching"
    /\ link_index < Len(links)
    /\ LET i == link_index + 1
           channel_data == GetChannelInfo(links[i])
       IN  /\ link_index' = i
           /\ CASE channel_data = "SystemExit" ->
                      /\ pc' = "exited"
                      /\ UNCHANGED <<posts_info_list, logged>>
                [] channel_data = None ->
                      /\ logged' = Append(logged, i)
                      /\ pc' = "crashed"
                      /\ UNCHANGED posts_info_list
                [] OTHER ->
                      /\ posts_info_list' =
                             IF links[i].outcome = "hidden"
                             THEN posts_info_list
                             ELSE posts_info_list \o
                                      LinkRecords(parser_flag, i, links[i].n)
                      /\ pc' = AfterLink(i)
                      /\ UNCHANGED logged
    /\ FetchFrame

\* one turn of the loop of tg_posts_info_list: the whole turn is inside
\* try/except, the messages appended before the exception stay in the list
FetchTgPosts ==
    /\ parser_flag = "tg_posts_parser"
    /\ pc = "fetching"
    /\ link_index < Len(links)
    /\ LET i == link_index + 1
       IN  /\ link_index' = i
           /\ posts_info_list' = posts_info_list \o
                  LinkRecords(parser_flag, i, links[i].n)
           /\ logged' = IF links[i].outcome = "raise"
                        THEN Append(logged, i) ELSE logged
           /\ pc' = AfterLink(i)
    /\ FetchFrame

\* one turn of the loop of tg_channels_info_list: the request is inside
\* try/except, which prints the error and continues
FetchTgChannel ==
    /\ parser_flag = "tg_channel_parser"
    /\ pc = "fetching"
    /\ link_index < Len(links)
    /\ LET i == link_index + 1
       IN  /\ link_index' = i
           /\ IF links[i].outcome = "raise"
              THEN /\ logged' = Append(logged, i)
                   /\ UNCHANGED posts_info_list
              ELSE /\ posts_info_list' = posts_info_list \o
                          LinkRecords(parser_flag, i, links[i].n)
                   /\ UNCHANGED logged
           /\ pc' = AfterLink(i)
    /\ FetchFrame

\* a social parser: the loop over its links, then the write of its list
NextFetch ==
    \/ FetchVkWall
    \/ FetchVkChannel
    \/ FetchTgPosts
    \/ FetchTgChannel
    \/ Partition
    \/ UpdateExistingRows
    \/ InsertNewRows
    \/ ChannelInsert

SpecFetch == InitFetch /\ [][NextFetch]_vars

-----------------------------------------------------------------------------
(* The normalisation of one raw item into a record *)

RECURSIVE Join(_, _)
\* sep.join(list) of a list of strings
Join(list, sep) ==
    IF list = <<>> THEN ""
    ELSE IF Len(list) = 1 THEN list[1]
    ELSE list[1] \o sep \o Join(Tail(list), sep)

\* [_ for _ in list if _ is not None]
FilterNone(list) == SelectSeq(list, LAMBDA x : x # None)

\* the exception a normalisation ends with
Raised(error) == [raised |-> error]

\* a "people" or "multi_select" property: the names of its entries, None for
\* an entry without a name
PeopleInputs == SeqsUpTo({"a", None}, MaxPeople)

\* a "select" property: null, or an option with a name
SelectInputs ==
    {[present |-> FALSE, name |-> None], [present |-> TRUE, name |-> "s"]}

\* an entry of a rollup of dates: its date null, or a date with a start
DateInputs ==
    {[present |-> FALSE, start |-> None], [present |-> TRUE, start |-> "d1"]}

\* record["properties"] of a record of the tasks database: the title, one
\* select, the people of "Naznachen" and of "Ne ispolzovat 1" and the
\* checkbox vary, every other optional property is empty
TasksRawInputs ==
    [title : {<<>>, <<"t">>}, status : SelectInputs, assigned : PeopleInputs,
     not_for_use_1 : PeopleInputs, checkbox : {"True", "False", None}]

\* record["properties"] of a record of the urls database: the title, the
\* url, the rollup of dates "utm_tern" and the people of "Owner" vary
UrlRawInputs ==
    [title : {<<>>, <<"t">>}, url : {None, "u"},
     utm_tern : SeqsUpTo(DateInputs, MaxPeople), owner : PeopleInputs]

\* "if ....get("title"): ... .get("title")[0].get("plain_text")"
Title(title) == IF title = <<>> THEN None ELSE title[1]

\* "if ....get("select"): ... .get("select").get("name")"
SelectName(select) == IF select.present THEN select.name ELSE None

\* the names of a multi-valued property joined, None entries left out
JoinFiltered(names) ==
    IF names = <<>> THEN None ELSE Join(FilterNone(names), ", ")

\* "match ....get("checkbox")"
Checkbox(checkbox) ==
    CASE checkbox = "True" -> "Da"
      [] checkbox = "False" -> "Net"
      [] OTHER -> None

\* TasksDbParser.table_info_list, the body of the loop: ", ".join of
\* "Ne ispolzovat 1" takes the names as they are and raises TypeError on a
\* None
TasksData(properties) ==
    IF None \in Range(properties.not_for_use_1)
    THEN Raised("TypeError")
    ELSE [TasksInfo(Title(properties.title)) EXCEPT
             !["Naznachen"] = JoinFiltered(properties.assigned),
             !["Status [R]"] = SelectName(properties.status),
             !["Gibkaya publikatsiya"] = Checkbox(properties.checkbox),
             !["Ne ispolzovat 1"] =
                 IF properties.not_for_use_1 = <<>> THEN None
                 ELSE Join(properties.not_for_use_1, ", ")]

\* UrlDbParser.table_info_list, the body of the loop:
\* elem.get("date").get("start") raises AttributeError on an entry of
\* "utm_tern" whose date is null
UrlData(properties) ==
    IF \E i \in 1..Len(properties.utm_tern) : ~properties.utm_tern[i].present
    THEN Raised("AttributeError")
    ELSE [UrlInfo(Title(properties.title)) EXCEPT
             !["URL"] = properties.url,
             !["utm_tern"] =
                 JoinFiltered([i \in 1..Len(properties.utm_tern) |->
                                  properties.utm_tern[i].start]),
             !["Owner"] = JoinFiltered(properties.owner)]

\* the words of a text: "w" is no link, the others match the link pattern
WordInputs == {"w", "a.co", "b.co"}
LinkWords == {"a.co", "b.co"}

\* a text as its words; <<>> is the empty text
TextInputs == SeqsUpTo(WordInputs, MaxWords)

\* a counter object of a VK post (likes, reposts, comments, views): absent,
\* or present with its count
CounterInputs ==
    {[present |-> FALSE, count |-> None], [present |-> TRUE, count |-> "0"],
     [present |-> TRUE, count |-> "5"]}

\* an item of wall.get: its text, the post it reposts (copy_history), the
\* description of a video attached, likes and views vary
VkRawInputs ==
    [text : TextInputs,
     copy_history : {[present |-> FALSE, text |-> <<>>]}
                    \cup {[present |-> TRUE, text |-> t] : t \in TextInputs},
     video : {[present |-> FALSE, description |-> <<>>],
              [present |-> TRUE, description |-> <<"b.co">>]},
     likes : CounterInputs, views : CounterInputs]

\* re.findall(pattern, text): the matches in the order of the text
FindAll(text) == SelectSeq(text, LAMBDA w : w \in LinkWords)

\* the string of a text
Text(words) == Join(words, " ")

\* "post[...].get("count") if post.get(...) else 0"
Counter(object) == IF object.present THEN object.count ELSE "0"

\* LinksCollector that looks at the text of the post only
LinksCollectorOwnOnly(post_text, original_post_text, repost_text) ==
    FindAll(post_text)

\* vk_posts_info_list: links_collector
LinksCollector(post_text, original_post_text, repost_text) ==
    FindAll(post_text) \o FindAll(original_post_text) \o FindAll(repost_text)

\* VkPostsParser.vk_posts_info_list, the body of "for post in data"
VkPostData(post) ==
    LET repost == post.copy_history.present
        original_post_text == IF repost THEN post.copy_history.text ELSE <<>>
        repost_text == IF repost THEN post.text ELSE <<>>
        post_text == IF post.text = <<>> /\ post.video.present
                     THEN post.video.description ELSE post.text
        links_collector ==
            LinksCollector(post_text, original_post_text, repost_text)
    IN  [VkPostInfo("g", "p1", Counter(post.likes)) EXCEPT
            !["Tekst originalnogo posta"] =
                "'" \o Text(IF original_post_text # <<>>
                            THEN original_post_text ELSE post_text),
            !["Prosmotry"] = Counter(post.views),
            !["Tekst reposta"] = IF repost THEN Text(repost_text) ELSE None,
            !["Ssylka na originalnyy post"] =
                IF repost THEN "vk.com/wall-1_2" ELSE None,
            !["Ssylka v poste"] =
                IF links_collector = <<>> THEN None
                ELSE Join(links_collector, ", ")]

\* message.reactions: None, or the counts of its results
ReactionsInputs ==
    {[present |-> FALSE, results |-> <<>>],
     [present |-> TRUE, results |-> <<>>],
     [present |-> TRUE, results |-> <<1, 2>>]}

\* message.replies: None, or an object with its number of replies
RepliesInputs ==
    {[present |-> FALSE, replies |-> None], [present |-> TRUE, replies |-> "3"]}

\* message.forward: None, a forward of post 5 of the channel with username
\* "c", a forward from a hidden sender named "X", or a forward without name
ForwardInputs ==
    {[present |-> FALSE, is_channel |-> FALSE, username |-> None,
      channel_post |-> 0, from_name |-> None],
     [present |-> TRUE, is_channel |-> TRUE, username |-> "c",
      channel_post |-> 5, from_name |-> None],
     [present |-> TRUE, is_channel |-> FALSE, username |-> None,
      channel_post |-> 0, from_name |-> "X"],
     [present |-> TRUE, is_channel |-> FALSE, username |-> None,
      channel_post |-> 0, from_name |-> None]}

\* a message of get_messages
TgRawInputs ==
    [text : TextInputs, reactions : ReactionsInputs, replies : RepliesInputs,
     views : {None, "7"}, forwards : {None, "2"}, forward : ForwardInputs]

RECURSIVE Sum(_)
Sum(counts) == IF counts = <<>> THEN 0 ELSE Head(counts) + Sum(Tail(counts))

\* OriginalChannelLink without the id of the post
OriginalChannelLinkNoPost(forward) ==
    IF ~forward.present THEN None
    ELSE IF forward.is_channel THEN "https://t.me/" \o forward.username
    ELSE IF forward.from_name # None THEN "Repost ot " \o forward.from_name
    ELSE None

\* tg_posts_info_list: original_channel_link ("Repost ot" renders the
\* Russian words of the source)
OriginalChannelLink(forward) ==
    IF ~forward.present THEN None
    ELSE IF forward.is_channel
         THEN "https://t.me/" \o forward.username \o "/"
                  \o ToString(forward.channel_post)
    ELSE IF forward.from_name # None THEN "Repost ot " \o forward.from_name
    ELSE None

\* TgPostsParser.tg_posts_info_list, the body of "for message in messages"
TgMessageData(message) ==
    LET original_channel_link == OriginalChannelLink(message.forward)
        found == FindAll(message.text)
        reactions == IF message.reactions.present
                     THEN ToString(Sum(message.reactions.results)) ELSE "0"
    IN  [TgMessageInfo("g", "p1", reactions) EXCEPT
            !["Tekst posta"] = Text(message.text),
            !["Kommentarii"] = IF message.replies.present
                               THEN message.replies.replies ELSE "0",
            !["Prosmotry"] = message.views,
            !["Kolichestvo repostov"] = message.forwards,
            !["Ssylka na originalnyy post"] =
                IF original_channel_link # None THEN original_channel_link
                ELSE "",
            !["Ssylka v poste"] =
                IF found = <<>> THEN None ELSE Join(found, ", ")]

NormKinds == {"tasks", "urls", "vk_posts_parser", "tg_posts_parser"}

RawInputs(flag) ==
    CASE flag = "tasks" -> TasksRawInputs
      [] flag = "urls" -> UrlRawInputs
      [] flag = "vk_posts_parser" -> VkRawInputs
      [] flag = "tg_posts_parser" -> TgRawInputs

InitNormalize ==
    /\ parser_flag \in NormKinds
    /\ raw \in RawInputs(parser_flag)
    /\ info = <<>>
    /\ pc = "raw"
    /\ sheet = <<>>
    /\ posts_info_list = <<>>
    /\ run = "first"
    /\ existing_posts = <<>>
    /\ rows_to_update = <<>>
    /\ rows_to_insert = <<>>
    /\ existing_posts2 = <<>>
    /\ update_requests = <<>>
    /\ last_row = 0
    /\ calls = <<>>
    /\ sheet_start = sheet
    /\ sheet_first = sheet
    /\ all_ok = TRUE
    /\ pages = <<>>
    /\ next_cursor = 0
    /\ has_more = TRUE
    /\ requests = <<>>
    /\ table_info_list = <<>>
    /\ page_data = <<>>
    /\ result_index = 0
    /\ links = <<>>
    /\ link_index = 0
    /\ message_index = 0
    /\ logged = <<>>

\* what a normalisation leaves alone
NormalizeFrame ==
    UNCHANGED <<parser_flag, sheet, calls, sheet_start, all_ok, upsertVars,
                notionVars, fetchVars, raw>>

NormalizeTask ==
    /\ parser_flag = "tasks"
    /\ pc = "raw"
    /\ info' = TasksData(raw)
    /\ pc' = "normalized"
    /\ NormalizeFrame

NormalizeUrl ==
    /\ parser_flag = "urls"
    /\ pc = "raw"
    /\ info' = UrlData(raw)
    /\ pc' = "normalized"
    /\ NormalizeFrame

NormalizeVkPost ==
    /\ parser_flag = "vk_posts_parser"
    /\ pc = "raw"
    /\ info' = VkPostData(raw)
    /\ pc' = "normalized"
    /\ NormalizeFrame

NormalizeTgMessage ==
    /\ parser_flag = "tg_posts_parser"
    /\ pc = "raw"
    /\ info' = TgMessageData(raw)
    /\ pc' = "normalized"
    /\ NormalizeFrame

NextNormalize ==
    \/ NormalizeTask
    \/ NormalizeUrl
    \/ NormalizeVkPost
    \/ NormalizeTgMessage

SpecNormalize == InitNormalize /\ [][NextNormalize]_vars

-----------------------------------------------------------------------------
(* tg_posts_info_list message by message *)

\* the most messages get_messages returns for one channel
MaxMessages == 2

\* a message of a channel: "plain" is not a forward, "channel" is a forward
\* from a channel that get_entity resolves, "private" a forward from a
\* channel that get_entity does not resolve (private or unknown to the
\* session)
MessageKinds == {"plain", "channel", "private"}

\* what Telegram answers for one channel link: get_entity or get_messages
\* raises, or the messages
ChannelInputs ==
    {[outcome |-> "raise", messages |-> <<>>]}
    \cup {[outcome |-> "ok", messages |-> m] :
              m \in SeqsUpTo(MessageKinds, MaxMessages)}

ChannelsInputs == UNION {[1..n -> ChannelInputs] : n \in 1..MaxLinks}

\* message.forward of a message
Forward(kind) ==
    IF kind = "plain"
    THEN [present |-> FALSE, is_channel |-> FALSE, username |-> None,
          channel_post |-> 0, from_name |-> None]
    ELSE [present |-> TRUE, is_channel |-> TRUE, username |-> "c",
          channel_post |-> 5, from_name |-> None]

\* "await self.tg_client.get_entity(channel_id)" for the source of a
\* forward: the entity, or the exception the client raises
GetEntity(kind) ==
    IF kind = "private" THEN Raised("ChannelPrivateError")
    ELSE [username |-> "c"]

\* the body of "for message in messages" for message j of channel i: the
\* exception of get_entity, or message_info
MessageInfo(i, j, kind) ==
    LET forward == Forward(kind)
        entity == IF forward.present /\ forward.is_channel
                  THEN GetEntity(kind) ELSE [username |-> None]
    IN  IF "raised" \in DOMAIN entity THEN entity
        ELSE LET original_channel_link == OriginalChannelLink(forward)
             IN  [TgMessageInfo(LinkNames[i],
                                LinkNames[i] \o "/" \o ToString(j), "0")
                  EXCEPT !["Ssylka na originalnyy post"] =
                      IF original_channel_link # None
                      THEN original_channel_link ELSE ""]

\* the except clause with the records of channel i taken back
ExceptClauseDropsChannel(list, i) ==
    SelectSeq(list, LAMBDA r : r["Kanal"] # LinkNames[i])

\* "except Exception as e: print(...)": the list is left as it is
ExceptClause(list, i) == list

InitTgMessages ==
    /\ parser_flag = "tg_posts_parser"
    /\ links \in ChannelsInputs
    /\ link_index = 0
    /\ message_index = 0
    /\ logged = <<>>
    /\ posts_info_list = <<>>
    /\ pc = "channel"
    /\ sheet = <<>>
    /\ run = "first"
    /\ existing_posts = <<>>
    /\ rows_to_update = <<>>
    /\ rows_to_insert = <<>>
    /\ existing_posts2 = <<>>
    /\ update_requests = <<>>
    /\ last_row = 0
    /\ calls = <<>>
    /\ sheet_start = sheet
    /\ sheet_first = sheet
    /\ all_ok = TRUE
    /\ pages = <<>>
    /\ next_cursor = 0
    /\ has_more = TRUE
    /\ requests = <<>>
    /\ table_info_list = <<>>
    /\ page_data = <<>>
    /\ result_index = 0
    /\ raw = <<>>
    /\ info = <<>>

\* what a step of tg_posts_info_list leaves alone
TgMessagesFrame ==
    UNCHANGED <<parser_flag, sheet, calls, sheet_start, all_ok, run,
                existing_posts, rows_to_update, rows_to_insert,
                existing_posts2, update_requests, last_row, sheet_first,
                links, notionVars, normVars>>

\* the position after channel i: the next turn of "for channel_link", or
\* "return tg_posts_info_list"
AfterChannel(i) == IF i = Len(links) THEN "returned" ELSE "channel"

\* a turn of "for channel_link in self.channel_links" up to get_messages
TgGetMessages ==
    /\ pc = "channel"
    /\ link_index < Len(links)
    /\ LET i == link_index + 1
       IN  /\ link_index' = i
           /\ message_index' = 0
           /\ IF links[i].outcome = "raise"
              THEN /\ logged' = Append(logged, i)
                   /\ posts_info_list' = ExceptClause(posts_info_list, i)
                   /\ pc' = AfterChannel(i)
              ELSE /\ pc' = "messages"
                   /\ UNCHANGED <<logged, posts_info_list>>
    /\ TgMessagesFrame

\* a turn of "for message in messages": message_info is appended, or the
\* exception leaves both loop bodies for the except clause
TgMessage ==
    /\ pc = "messages"
    /\ message_index < Len(links[link_index].messages)
    /\ LET i == link_index
           j == message_index + 1
           message_info == MessageInfo(i, j, links[i].messages[j])
       IN  /\ message_index' = j
           /\ IF "raised" \in DOMAIN message_info
              THEN /\ logged' = Append(logged, i)
                   /\ posts_info_list' = ExceptClause(posts_info_list, i)
                   /\ pc' = AfterChannel(i)
              ELSE /\ posts_info_list' = Append(posts_info_list, message_info)
                   /\ pc' = "messages"
                   /\ UNCHANGED logged
    /\ UNCHANGED link_index
    /\ TgMessagesFrame

\* "for message in messages" has run out of messages
TgEndOfMessages ==
    /\ pc = "messages"
    /\ message_index = Len(links[link_index].messages)
    /\ pc' = AfterChannel(link_index)
    /\ UNCHANGED <<posts_info_list, fetchVars>>
    /\ UNCHANGED <<parser_flag, sheet, calls, sheet_start, all_ok, run,
                   existing_posts, rows_to_update, rows_to_insert,
                   existing_posts2, update_requests, last_row, sheet_first,
                   notionVars, normVars>>

NextTgMessages ==
    \/ TgGetMessages
    \/ TgMessage
    \/ TgEndOfMessages

SpecTgMessages == InitTgMessages /\ [][NextTgMessages]_vars

-----------------------------------------------------------------------------
(* Properties of the incremental upsert *)

Count(list, x) == Cardinality({i \in 1..Len(list) : list[i] = x})

Partitioned == parser_flag \in PostKinds /\ pc # "start"

\* 1-based position of the first occurrence of x in list
FirstPos(list, x) ==
    CHOOSE i \in 1..Len(list) :
        list[i] = x /\ \A j \in 1..Len(list) : list[j] = x => i <= j

\* the identities in column `col` of the rows below the header
IdentityCells(sh, col) == {sh[i][col] : i \in 2..Len(sh)} \ {Blank}

\* the entries of the batchUpdate calls of the run that append (range
\* "List1!A<row>")
AppendEntries ==
    {e \in UNION {Range(calls[k].data) : k \in 1..Len(calls)} :
        Len(e.range) = 2}

\* C1: after the partition of run_google_upsert every record of
\* posts_info_list is in exactly one of rows_to_update and rows_to_insert, in
\* rows_to_update exactly when its "Post" value occurs in the identities
\* read, both lists keep the input order and their lengths add up to the
\* length of posts_info_list.
PartitionCompleteness ==
    Partitioned =>
        /\ Len(rows_to_update) + Len(rows_to_insert) = Len(posts_info_list)
        /\ \A r \in Range(posts_info_list) :
             /\ Count(rows_to_update, r) + Count(rows_to_insert, r)
                    = Count(posts_info_list, r)
             /\ r \in Range(rows_to_update)
                    <=> r["Post"] \in Range(existing_posts)
             /\ r \in Range(rows_to_insert)
                    <=> r["Post"] \notin Range(existing_posts)
        /\ rows_to_update = SelectSeq(posts_info_list,
               LAMBDA r : r["Post"] \in Range(existing_posts))
        /\ rows_to_insert = SelectSeq(posts_info_list,
               LAMBDA r : r["Post"] \notin Range(existing_posts))

PartitionWitness ==
    /\ pc = "partitioned"
    /\ rows_to_update # <<>>
    /\ rows_to_insert # <<>>
    /\ Len(existing_posts) = 2

\* C2: _update_existing_rows builds one update operation for each record of
\* rows_to_update whose identity occurs in the identities it read, in the
\* order of the records; the operation of a record whose identity is first
\* found at 0-based position i addresses row i + 2 from column A to the last
\* column of the schema (K for a VK post, J for a TG post) and carries the
\* record's row; the operations are sent in one batchUpdate.
UpdateRowIndex ==
    LET found == SelectSeq(rows_to_update,
                     LAMBDA r : r["Post"] \in Range(existing_posts2))
        letter == IF parser_flag = "vk_posts_parser" THEN "K" ELSE "J"
    IN  /\ Len(update_requests) = Len(found)
        /\ \A k \in 1..Len(found) :
             LET i == FirstPos(existing_posts2, found[k]["Post"]) - 1
             IN  /\ update_requests[k].range
                        = <<"List1!A", i + 2, letter, i + 2>>
                 /\ update_requests[k].values
                        = <<GetRowFromPost(found[k], parser_flag)>>
        /\ update_requests # <<>> =>
             \E k \in 1..Len(calls) : calls[k].data = update_requests

UpdateRowIndexWitness ==
    /\ pc = "updated"
    /\ Len(update_requests) = 2
    /\ update_requests[1].range[2] = 3
    /\ update_requests[2].range[2] = 2

\* the column that holds the identity: "Post" (B) for posts, "Kanal" (A) for
\* channel snapshots
IdentityColumn == IF parser_flag \in PostKinds THEN 2 ELSE 1

\* a header row and below it only rows that hold an identity
IdentityRows(sh) ==
    Len(sh) >= 1 /\ \A i \in 2..Len(sh) : sh[i][IdentityColumn] # Blank

\* a header row and below it only rows as the parsers write them: a link in
\* column A and an identity in column B
WellFormed(sh) ==
    Len(sh) >= 1 /\ \A i \in 2..Len(sh) :
        sh[i][1] # Blank /\ sh[i][2] \notin {Blank, ""}

\* every record of a post parser has an identity
RecordsHaveIdentity ==
    parser_flag \in PostKinds =>
        \A r \in Range(posts_info_list) : r["Post"] \notin {"", None}

\* C3: on a destination of a header row and N rows that each hold an
\* identity, the append of _insert_new_rows starts at row N + 2 (stated for
\* the runs in which no request fails and every record has an identity).
AppendStartRow ==
    (last_row # 0 /\ all_ok /\ RecordsHaveIdentity
     /\ IdentityRows(sheet_start)) =>
        last_row = (Len(sheet_start) - 1) + 2

\* C4: the append starts strictly below every row an update operation of the
\* run addresses and strictly below the row of every existing identity
\* (stated for the post parsers, in the runs in which no request fails and
\* every record has an identity).
AppendBelowAllRows ==
    (parser_flag \in PostKinds /\ last_row # 0 /\ all_ok
     /\ RecordsHaveIdentity) =>
        /\ \A k \in 1..Len(update_requests) :
               update_requests[k].range[2] < last_row
        /\ \A i \in 2..Len(sheet_start) :
               sheet_start[i][2] # Blank => i < last_row

\* C5: the second run over the same records inserts nothing, every update
\* it issues writes what the row already holds, and the destination is left
\* as the first run left it (stated for the runs in which no request fails,
\* on a destination that was well formed before the first run, with records
\* that all have an identity).
SecondRunIdempotent ==
    (/\ parser_flag \in PostKinds /\ run = "second" /\ pc = "done"
     /\ all_ok
     /\ WellFormed(sheet_first)
     /\ RecordsHaveIdentity) =>
        /\ rows_to_insert = <<>>
        /\ \A k \in 1..Len(update_requests) :
               sheet_start[update_requests[k].range[2]]
                   = ApplyData(sheet_start, <<update_requests[k]>>)
                         [update_requests[k].range[2]]
        /\ sheet = sheet_start

UpsertKeepsOtherRows ==
    /\ \A k \in 1..Len(calls) : calls[k].op # "clear"
    /\ (parser_flag \in PostKinds /\ pc = "done" /\ all_ok
        /\ RecordsHaveIdentity) =>
         \A i \in 2..Len(sheet_start) :
             (/\ sheet_start[i][2] # Blank
              /\ \A r \in Range(posts_info_list) :
                     r["Post"] # sheet_start[i][2])
                 => sheet[i] = sheet_start[i]

\* C8: with no records no batchUpdate is issued, whatever the parser (stated
\* for the runs in which no request fails).
EmptyRecordsNoWrite ==
    (posts_info_list = <<>> /\ all_ok) => calls = <<>>

\* C9: a record whose identity is empty or None is in rows_to_insert and not
\* in rows_to_update.
EmptyIdentityInserted ==
    Partitioned =>
        \A r \in Range(posts_info_list) :
            r["Post"] \in {"", None} =>
                r \in Range(rows_to_insert) /\ r \notin Range(rows_to_update)

-----------------------------------------------------------------------------
(* Properties of the full replace *)

RECURSIVE Flatten(_)
\* the records of all pages, in page order
Flatten(ps) ==
    IF ps = <<>> THEN <<>> ELSE Head(ps).results \o Flatten(Tail(ps))

\* a row as a cleared sheet stores it
Stored(row) == [c \in 1..Len(row) |-> WriteCell(Blank, row[c])]

\* C10: a finished run of _google_sheet_handling has issued a clear of the
\* whole sheet and then one batchUpdate at A1 of the header row followed by
\* one row per fetched record in fetch order; the sheet then holds the header
\* row and these rows and nothing else (the header row alone when no record
\* was fetched); after the clear, before the write, the sheet is empty.
FullReplace ==
    LET fetched == Flatten(pages)
        rows == [i \in 1..Len(fetched) |->
                    GetRowFromTable(TableInfo(fetched[i], parser_flag),
                                    parser_flag)]
        header == GetTableHeaders(parser_flag)[1]
    IN  /\ (parser_flag \in NotionKinds /\ pc = "cleared") => sheet = <<>>
        /\ (parser_flag \in NotionKinds /\ pc = "done") =>
             /\ calls = <<Clear("List1", TRUE),
                          BatchUpdate(<<[range |-> <<"List1!A", 1>>,
                                         values |-> <<header>> \o rows]>>,
                                      TRUE)>>
             /\ Len(sheet) = 1 + Len(fetched)
             /\ sheet[1] = Stored(header)
             /\ \A i \in 1..Len(fetched) : sheet[i + 1] = Stored(rows[i])

FullReplaceWitness ==
    /\ parser_flag \in NotionKinds
    /\ pc = "done"
    /\ table_info_list = <<>>
    /\ Len(sheet_start) = 3
    /\ Len(sheet) = 1

FullReplaceOrderWitness ==
    /\ parser_flag = "tasks"
    /\ pc = "done"
    /\ Len(pages) = 2
    /\ Len(sheet) = 4
    /\ sheet[2][1] = "r2"
    /\ sheet[4][1] = "r1"

-----------------------------------------------------------------------------
(* Properties of the pagination *)

\* C11: get_records_by_batch sends one query per page, the first without a
\* cursor and each later one with the cursor of the page before, and none
\* after the page whose has_more is false; the records consumed so far are
\* the records of the pages answered, each once, in page order and in their
\* order within the page, so that when the loop has ended they are the
\* records of all pages.
PaginationCompleteness ==
    parser_flag \in NotionKinds =>
        LET answered == IF pc = "failed" /\ Len(calls) = 0
                        THEN Len(requests) - 1 ELSE Len(requests)
            fetched == Flatten(SubSeq(pages, 1, answered))
        IN  /\ Len(requests) <= Len(pages)
            /\ \A k \in 1..Len(requests) :
                   requests[k] = IF k = 1 THEN 0 ELSE pages[k - 1].next_cursor
            /\ table_info_list = [i \in 1..Len(fetched) |->
                                     TableInfo(fetched[i], parser_flag)]
            /\ ~has_more =>
                   /\ answered = Len(pages)
                   /\ Len(table_info_list) = Len(Flatten(pages))

PaginationWitness ==
    /\ parser_flag \in NotionKinds
    /\ pc = "start"
    /\ ~has_more
    /\ requests = <<0, 2>>
    /\ Len(pages[1].results) = 2
    /\ Len(pages[2].results) = 1
    /\ Len(table_info_list) = 3

-----------------------------------------------------------------------------
(* Properties of the loops over the links *)

RECURSIVE OkRecords(_, _)
\* the records of the first k links, those of the links that answered
OkRecords(flag, k) ==
    IF k = 0 THEN <<>>
    ELSE OkRecords(flag, k - 1) \o
             (IF links[k].outcome = "ok"
              THEN LinkRecords(flag, k, links[k].n) ELSE <<>>)

\* C12: for every social parser, a link whose retrieval raises, with a link
\* after it that answers, is logged and passed over and the loop goes on:
\* the run does not end there, and once the loop has ended the list holds the
\* records of every link that answered, which a finished run has written.
PerLinkIsolation ==
    /\ \A i \in 1..link_index :
           (/\ links[i].outcome = "raise"
            /\ \E j \in (i + 1)..Len(links) : links[j].outcome = "ok") =>
               /\ i \in Range(logged)
               /\ pc # "crashed"
    /\ pc \in {"start", "partitioned", "updated", "done"} =>
           /\ link_index = Len(links)
           /\ \A r \in Range(OkRecords(parser_flag, Len(links))) :
                  r \in Range(posts_info_list)
    /\ (pc = "done" /\ OkRecords(parser_flag, Len(links)) # <<>>) =>
           calls # <<>>

\* C13: when a VK request (wall.get or groups.getMembers) is answered with a
\* status other than 200 the process exits at that link: no later link is
\* fetched, nothing is sent to the destination and the destination is as it
\* was; and the process exits during the loop in no other case.
TransportFatalAbort ==
    /\ \A i \in 1..link_index :
           (parser_flag \in VkKinds /\ links[i].outcome = "non200") =>
               /\ pc = "exited"
               /\ link_index = i
               /\ calls = <<>>
               /\ sheet = sheet_start
    /\ pc = "exited" =>
           parser_flag \in VkKinds /\ links[link_index].outcome = "non200"

TransportFatalAbortWitness ==
    /\ pc = "exited"
    /\ link_index = 1
    /\ Len(links) = 2
    /\ links[2].outcome = "ok"

-----------------------------------------------------------------------------
(* Properties of the normalisation *)

Normalized(flag) == parser_flag = flag /\ pc = "normalized"

\* C14: the normalisation of a raw item, whichever of its optional fields
\* are absent or null, ends without an exception, and the column of an absent
\* field holds None.
FieldMissingNoError ==
    /\ pc = "normalized" => "raised" \notin DOMAIN info
    /\ (Normalized("tasks") /\ "raised" \notin DOMAIN info) =>
           /\ raw.title = <<>> => info["Zadacha"] = None
           /\ ~raw.status.present => info["Status [R]"] = None
           /\ raw.assigned = <<>> => info["Naznachen"] = None
           /\ raw.not_for_use_1 = <<>> => info["Ne ispolzovat 1"] = None
           /\ raw.checkbox = None => info["Gibkaya publikatsiya"] = None
    /\ (Normalized("urls") /\ "raised" \notin DOMAIN info) =>
           /\ raw.title = <<>> => info[""] = None
           /\ raw.url = None => info["URL"] = None
           /\ raw.utm_tern = <<>> => info["utm_tern"] = None
           /\ raw.owner = <<>> => info["Owner"] = None

\* the column of a multi-valued field as stated: None for no entry, else the
\* names that are not null joined with ", " in upstream order
JoinedNames(names) ==
    IF names = <<>> THEN None
    ELSE Join(SelectSeq(names, LAMBDA x : x # None), ", ")

\* C23: for every multi-valued field of a Notion record (the people of
\* "Naznachen", "Owner" and "Ne ispolzovat 1", the rollup "utm_tern") the
\* column is the names that are not null joined with ", " in upstream order,
\* and a null entry never makes the normalisation raise.
MultiValuedJoin ==
    /\ Normalized("tasks") =>
           /\ "raised" \notin DOMAIN info
           /\ info["Naznachen"] = JoinedNames(raw.assigned)
           /\ info["Ne ispolzovat 1"] = JoinedNames(raw.not_for_use_1)
    /\ Normalized("urls") =>
           /\ "raised" \notin DOMAIN info
           /\ info["Owner"] = JoinedNames(raw.owner)
           /\ info["utm_tern"] =
                  JoinedNames([i \in 1..Len(raw.utm_tern) |->
                                  raw.utm_tern[i].start])

\* C15: in the record of a VK post the likes, reposts, comments and views,
\* and in the record of a TG post the reactions, comments, views and
\* forwards, are never None, and are 0 when the upstream object or value is
\* absent.
EngagementNeverNull ==
    /\ Normalized("vk_posts_parser") =>
           /\ \A key \in {"Layki", "Reposty", "Kommentarii", "Prosmotry"} :
                  info[key] # None
           /\ ~raw.likes.present => info["Layki"] = "0"
           /\ ~raw.views.present => info["Prosmotry"] = "0"
    /\ Normalized("tg_posts_parser") =>
           /\ \A key \in {"Reaktsii", "Kommentarii", "Prosmotry",
                           "Kolichestvo repostov"} : info[key] # None
           /\ ~raw.reactions.present => info["Reaktsii"] = "0"
           /\ ~raw.replies.present => info["Kommentarii"] = "0"
           /\ raw.views = None => info["Prosmotry"] = "0"
           /\ raw.forwards = None => info["Kolichestvo repostov"] = "0"

\* C16 as stated: a forward from a sender that is no channel, named "X",
\* gives the reference "Repost from X"; a forward of post 5 of the channel
\* with username "c" gives "https://t.me/c/5".
RepostReferenceAsStated ==
    Normalized("tg_posts_parser") =>
        /\ (raw.forward.present /\ ~raw.forward.is_channel
                /\ raw.forward.from_name = "X") =>
               info["Ssylka na originalnyy post"] = "Repost from X"
        /\ (raw.forward.present /\ raw.forward.is_channel
                /\ raw.forward.username = "c"
                /\ raw.forward.channel_post = 5) =>
               info["Ssylka na originalnyy post"] = "https://t.me/c/5"

\* C16 amended: the reference of a forward from a sender that is no channel,
\* named "X", is the Russian text of the source, "Repost ot X" in the
\* rendering of this module; a forward of post 5 of the channel with username
\* "c" gives "https://t.me/c/5".
RepostReference ==
    Normalized("tg_posts_parser") =>
        /\ (raw.forward.present /\ ~raw.forward.is_channel
                /\ raw.forward.from_name = "X") =>
               info["Ssylka na originalnyy post"] = "Repost ot X"
        /\ (raw.forward.present /\ raw.forward.is_channel
                /\ raw.forward.username = "c"
                /\ raw.forward.channel_post = 5) =>
               info["Ssylka na originalnyy post"] = "https://t.me/c/5"

RepostReferenceWitness ==
    /\ Normalized("tg_posts_parser")
    /\ raw.forward.present
    /\ raw.forward.from_name = "X"
    /\ info["Ssylka na originalnyy post"] = "Repost ot X"

RepostReferenceChannelWitness ==
    /\ Normalized("tg_posts_parser")
    /\ raw.forward.is_channel
    /\ info["Ssylka na originalnyy post"] = "https://t.me/c/5"

\* C17: the link column of a VK post is the matches of the pattern in the
\* text of the post (the description of its video when the text is empty),
\* then in the text of the post it reposts, then in the caption of the repost
\* (the text of the post again), in the order found, duplicates kept, joined
\* with ", "; it is None when there is no match.
LinkExtraction ==
    Normalized("vk_posts_parser") =>
        LET repost == raw.copy_history.present
            own == IF raw.text = <<>> /\ raw.video.present
                   THEN raw.video.description ELSE raw.text
            original == IF repost THEN raw.copy_history.text ELSE <<>>
            caption == IF repost THEN raw.text ELSE <<>>
            matches == SelectSeq(own \o original \o caption,
                                 LAMBDA w : w \in LinkWords)
        IN  /\ matches = <<>> => info["Ssylka v poste"] = None
            /\ matches # <<>> =>
                   info["Ssylka v poste"] = Join(matches, ", ")
            /\ (~repost /\ raw.text = <<"b.co", "a.co">>) =>
                   info["Ssylka v poste"] = "b.co, a.co"
            /\ (~repost /\ raw.text = <<"a.co", "a.co">>) =>
                   info["Ssylka v poste"] = "a.co, a.co"

LinkExtractionWitness ==
    /\ Normalized("vk_posts_parser")
    /\ raw.copy_history.present
    /\ raw.text = <<"w", "a.co">>
    /\ raw.copy_history.text = <<"b.co", "a.co">>
    /\ info["Ssylka v poste"] = "a.co, b.co, a.co, a.co"

-----------------------------------------------------------------------------
(* Properties of the rows written *)

\* the rows of all the batchUpdate calls of the run
RowsWritten ==
    UNION {Range(e.values) :
              e \in UNION {Range(calls[k].data) : k \in 1..Len(calls)}}

\* C18: the batchUpdate of a Notion parser carries the header row, of 20
\* labels for tasks and 13 for urls, and below it one row per record, each as
\* wide as the header row and holding at position k the value of the record
\* for the label at position k of the header row; every row a social parser
\* writes has the width of its kind, 11 for a VK post, 10 for a TG post, 3
\* for a channel snapshot.
SchemaAlignment ==
    /\ parser_flag \in NotionKinds =>
           \A k \in 1..Len(calls) : calls[k].op = "batchUpdate" =>
               LET values == calls[k].data[1].values
                   header == values[1]
               IN  /\ Len(header) = IF parser_flag = "tasks" THEN 20 ELSE 13
                   /\ Len(values) = 1 + Len(table_info_list)
                   /\ \A j \in 2..Len(values) :
                          /\ Len(values[j]) = Len(header)
                          /\ \A c \in 1..Len(header) :
                                 values[j][c]
                                     = table_info_list[j - 1][header[c]]
    /\ parser_flag \notin NotionKinds =>
           \A row \in RowsWritten :
               Len(row) = CASE parser_flag = "vk_posts_parser" -> 11
                            [] parser_flag = "tg_posts_parser" -> 10
                            [] OTHER -> 3

SchemaAlignmentWitness ==
    /\ parser_flag = "urls"
    /\ pc = "done"
    /\ Len(table_info_list) = 3
    /\ table_info_list[1][""] = "r2"
    /\ sheet[2][1] = "r2"

SchemaAlignmentSocialWitness ==
    /\ parser_flag = "tg_posts_parser"
    /\ pc = "done"
    /\ Len(calls) = 2

\* C19: a batchUpdate that fails is the last request of the run, which ends
\* in failure: it is not sent again and nothing is sent after it; the sheet
\* is as it was before the failed request, so that after the failed write of
\* a Notion parser, whose clear was applied, the sheet is empty.
WriteFailureEndsRun ==
    /\ \A k \in 1..Len(calls) :
           (calls[k].op = "batchUpdate" /\ ~calls[k].ok) =>
               /\ k = Len(calls)
               /\ pc = "failed"
               /\ k = 1 => sheet = sheet_start
    /\ (parser_flag \in NotionKinds /\ Len(calls) = 2 /\ ~calls[2].ok) =>
           /\ calls[1] = Clear("List1", TRUE)
           /\ sheet = <<>>

WriteFailureEndsRunWitness ==
    /\ parser_flag \in NotionKinds
    /\ pc = "failed"
    /\ Len(calls) = 2
    /\ Len(sheet_start) = 3
    /\ sheet = <<>>

WriteFailureUpsertWitness ==
    /\ parser_flag \in PostKinds
    /\ pc = "failed"
    /\ Len(calls) = 2
    /\ calls[1].ok
    /\ ~calls[2].ok
    /\ sheet # sheet_start

-----------------------------------------------------------------------------
(* Properties of the reads of one upsert run *)

-----------------------------------------------------------------------------
(* Properties of tg_posts_info_list message by message *)

\* the value of "Post" of message j of channel i
PostOf(i, j) == LinkNames[i] \o "/" \o ToString(j)

\* the messages of channel i that are handled before one raises: all of
\* them when none does, none when the channel itself is not retrieved
Before(i) ==
    IF links[i].outcome = "raise" THEN 0
    ELSE LET m == links[i].messages
             private == {j \in 1..Len(m) : m[j] = "private"}
         IN  IF private = {} THEN Len(m)
             ELSE (CHOOSE j \in private : \A k \in private : j <= k) - 1

RECURSIVE Emitted(_)
\* the records of the messages handled before a raise, of channels 1..i
Emitted(i) ==
    IF i = 0 THEN <<>>
    ELSE Emitted(i - 1) \o
             [j \in 1..Before(i) |-> MessageInfo(i, j, links[i].messages[j])]

\* C22: a message forwarded from a channel that get_entity does not resolve
\* is still emitted, with a reference that is not empty, and so are all the
\* later messages of its channel.
UnresolvableRepostEmitted ==
    (parser_flag = "tg_posts_parser" /\ pc = "returned") =>
        \A i \in 1..Len(links) : \A j \in 1..Len(links[i].messages) :
            links[i].messages[j] = "private" =>
                \A k \in j..Len(links[i].messages) :
                    \E r \in Range(posts_info_list) :
                        /\ r["Post"] = PostOf(i, k)
                        /\ k = j =>
                              r["Ssylka na originalnyy post"] \notin {"", None}

-----------------------------------------------------------------------------
(* Properties of the reader taken step by step *)

RECURSIVE Answered(_)
\* the results of the responses to the first k queries, in order
Answered(k) ==
    IF k = 0 THEN <<>>
    ELSE Answered(k - 1) \o Response(requests[k]).results

\* the rows table_info_list builds from a list of results
Consumed(results) ==
    [i \in 1..Len(results) |-> TableInfo(results[i], parser_flag)]

\* C21: every result of a response is yielded, and taken by the consumer,
\* before the next query is sent: a query is sent only when the consumer
\* holds the results of all the responses so far, and while a response is
\* being yielded the consumer holds the results of the responses before it
\* and the results of this one yielded so far, so that the reader never
\* holds results of more than one response.
StreamingPagination ==
    [][/\ requests' # requests =>
             table_info_list = Consumed(Answered(Len(requests)))
       /\ pc = "yielding" =>
             /\ page_data = Response(requests[Len(requests)])
             /\ table_info_list =
                    Consumed(Answered(Len(requests) - 1)
                             \o SubSeq(page_data.results, 1, result_index))
      ]_vars

StreamingPaginationWitness ==
    /\ parser_flag \in NotionKinds
    /\ pc = "yielding"
    /\ requests = <<0, 2>>
    /\ Len(pages[1].results) = 2
    /\ Len(page_data.results) = 2
    /\ result_index = 1
    /\ Len(table_info_list) = 3

\* C26: the clear is issued only when the last response said there is no
\* more and the consumer has built the record of every result of every
\* response; until then nothing is issued to the sheet, and a run whose
\* query or whose normalisation raised has issued nothing and left the
\* sheet as it was.
ClearAfterCompleteFetch ==
    parser_flag \in NotionKinds =>
        /\ calls # <<>> =>
              /\ requests # <<>>
              /\ ~Response(requests[Len(requests)]).has_more
              /\ table_info_list = Consumed(Answered(Len(requests)))
        /\ calls = <<>> => sheet = sheet_start
        /\ (pc = "failed" /\ has_more) =>
              calls = <<>> /\ sheet = sheet_start

\* two pages fetched, then the sheet cleared and written
ClearAfterCompleteFetchWitness ==
    /\ parser_flag \in NotionKinds
    /\ pc = "done"
    /\ requests = <<0, 2>>
    /\ Len(table_info_list) = 3
    /\ Len(calls) = 2
    /\ sheet # sheet_start

\* the normalisation of a record of the second page raised
FetchRaisedWitness ==
    /\ parser_flag \in NotionKinds
    /\ pc = "failed"
    /\ requests = <<0, 2>>
    /\ result_index = 2
    /\ Raises(page_data.results[result_index])
    /\ Len(table_info_list) = 2
    /\ calls = <<>>
    /\ sheet = sheet_start
    /\ sheet # <<>>

\* C27: the first query carries no start_cursor, every later query carries
\* the next_cursor of the response before it, and no query after the first
\* is sent without a start_cursor, whatever the responses are.
CursorProtocol ==
    parser_flag \in NotionKinds =>
        \A k \in 1..Len(requests) :
            IF k = 1 THEN requests[k] = 0
            ELSE /\ requests[k] = Response(requests[k - 1]).next_cursor
                 /\ requests[k] # 0

-----------------------------------------------------------------------------
(* Properties of the upsert as a whole *)

\* C24: in a run that has ended, every record handed to it is carried by a
\* write that was issued: one update operation for each record of
\* rows_to_update, holding the row of that record, and one row of the
\* append for each record of rows_to_insert, whatever the second read of the
\* identity column returns.
NoRecordDropped ==
    (parser_flag \in PostKinds /\ pc = "done") =>
        /\ Len(rows_to_update) + Len(rows_to_insert) = Len(posts_info_list)
        /\ Len(update_requests) = Len(rows_to_update)
        /\ \A i \in 1..Len(rows_to_update) :
               /\ i <= Len(update_requests)
               /\ update_requests[i].values =
                      <<GetRowFromPost(rows_to_update[i], parser_flag)>>
        /\ rows_to_update # <<>> =>
               \E c \in 1..Len(calls) : calls[c].data = update_requests
        /\ rows_to_insert # <<>> =>
               /\ calls # <<>>
               /\ calls[Len(calls)].data[1].values =
                      MakeSheetReadyData(rows_to_insert, parser_flag)

\* no two rows below the header hold the same identity
UniqueIdentities(sh) ==
    \A i \in 2..Len(sh) : \A j \in 2..Len(sh) :
        (i # j /\ sh[i][2] # Blank) => sh[i][2] # sh[j][2]

\* C25: when the identity column of the destination holds no value twice
\* before a run of run_google_upsert, it holds no value twice after it, for
\* every sequence of records (two records with the same identity included)
\* and every outcome of the reads of the identity column (stated for rows
\* and records that hold an identity and for runs whose writes succeed).
UpsertKeepsIdentitiesUnique ==
    (/\ parser_flag \in PostKinds
     /\ run = "first"
     /\ pc = "done"
     /\ RecordsHaveIdentity
     /\ WellFormed(sheet_start)
     /\ UniqueIdentities(sheet_start)) =>
        UniqueIdentities(sheet)

====
